---- MODULE Spec2Model ----
(***************************************************************************)
(* Model of day-8/src/main.rs: a three-opcode interpreter                  *)
(* (accumulate_from_instructions), the loop-path extractor                 *)
(* (get_possibly_broken_instructions) and the repair search                *)
(* (accumulate_and_fix_broken_instruction).                                *)
(*                                                                         *)
(* Numbers.  Operands and the accumulator are Rust i64, positions are u32. *)
(* An i64 value is written [top, hi, lo] and stands for                    *)
(* top * 2^62 + hi * 2^32 + lo, with hi and lo small signed numbers, so    *)
(* that operands of magnitude 2^32, the limits i64::MAX and i64::MIN, the  *)
(* `as u32` conversion of jump_index and the overflow of the two i64       *)
(* additions (lines 31 and 61) can be represented.  The values written     *)
(* this way are those within a small distance of a multiple of 2^62 or of  *)
(* 2^32; other i64 values are outside the model.  A u32 position is        *)
(* written as the signed number with the same 32 bits: p for p < 2^31 and  *)
(* p - 2^32 above, compared as unsigned (GeU32).                           *)
(*                                                                         *)
(* Overflow.  An i64 addition that overflows panics in a build with        *)
(* overflow checks (the debug profile) and wraps around in a build without *)
(* them (the release profile); `build` records which one is running.       *)
(***************************************************************************)
EXTENDS Integers, Sequences, FiniteSets, TLC

VARIABLES
    instructions,                  \* the Program: Vec<OP>, read-only
    swap_op_index,                 \* executor parameter: Option<u32>
    visited_instruction_graph,     \* executor local: HashMap<u32, u32>
    acc,                           \* executor local: i64
    index,                         \* executor local: u32
    ret,                           \* value returned by the last executor call
    ext_graph,                     \* extractor parameter: &HashMap<u32, u32>
    initial_index,                 \* extractor parameter: u32
    ext_index,                     \* extractor local `index`
    possibly_broken_instructions,  \* extractor local / repair local: Vec<u32>
    search_index,                  \* repair local `index` (line 109)
    result,                        \* value returned by repair
    pc,                            \* position of the innermost active function
    rpc,                           \* position of repair while a callee runs
    iterations,                    \* history: iterations of the executor loop in this run
    visits,                        \* history: positions executed in this run, in order
    tried,                         \* history: swap arguments of the executor calls of repair
    extract_calls,                 \* history: number of extractor calls of repair
    outcomes,                      \* history: (acc, outcome) of the executor calls of repair
    raw_input,                     \* main: the Result of read_to_string
    output,                        \* main: the lines printed so far
    build                          \* the profile the program was compiled with

vars == <<instructions, swap_op_index, visited_instruction_graph, acc, index,
          ret, ext_graph, initial_index, ext_index,
          possibly_broken_instructions, search_index, result, pc, rpc,
          iterations, visits, tried, extract_calls, outcomes, raw_input,
          output, build>>

execVars == <<swap_op_index, visited_instruction_graph, acc, index, ret,
              iterations, visits>>

extVars == <<ext_graph, initial_index, ext_index, possibly_broken_instructions>>

repairVars == <<search_index, result, rpc, tried, extract_calls, outcomes>>

mainVars == <<raw_input, output, build>>

---------------------------------------------------------------------------
(* Bounds *)

MaxLen == 3        \* longest enumerated program

MaxOff == 1        \* largest magnitude of an enumerated small jmp/nop operand

MaxPos == 3        \* largest position in an enumerated transition map

MaxWalk == 10      \* cap on the length of a walk of the extractor that never closes

MaxLines == 2      \* longest enumerated input text, in lines

---------------------------------------------------------------------------
(* i64 and Option *)

Builds == {"debug", "release"}

I64(h, l) == [top |-> 0, hi |-> h, lo |-> l]

Zero64 == I64(0, 0)

I64Max == [top |-> 2, hi |-> 0, lo |-> -1]    \* 9223372036854775807

Neg64(a) == [top |-> 0 - a.top, hi |-> 0 - a.hi, lo |-> 0 - a.lo]

\* the part of a value below its multiple of 2^62 is not negative
LowNonNeg(a) == a.hi > 0 \/ (a.hi = 0 /\ a.lo >= 0)

\* the sum of two values as an integer, without regard to the width
Sum64(a, b) == [top |-> a.top + b.top, hi |-> a.hi + b.hi, lo |-> a.lo + b.lo]

\* the integer lies in i64::MIN ..= i64::MAX
InRange64(a) ==
    \/ a.top \in {-1, 0, 1}
    \/ a.top = 2 /\ ~LowNonNeg(a)
    \/ a.top = -2 /\ LowNonNeg(a)

\* the integer reduced modulo 2^64 into the range of i64
Wrap64(a) ==
    IF InRange64(a) THEN a
    ELSE IF a.top > 0 THEN [a EXCEPT !.top = a.top - 4]
    ELSE [a EXCEPT !.top = a.top + 4]

\* the i64 addition `a + b` overflows
Overflows64(a, b) == ~InRange64(Sum64(a, b))

\* the value of the i64 addition `a + b` when it does not panic: the sum,
\* wrapped around on overflow
Add64(a, b) == Wrap64(Sum64(a, b))

\* the i64 addition `a + b` panics: "attempt to add with overflow"
AddPanics(a, b) == build = "debug" /\ Overflows64(a, b)

NonNeg64(a) == a.top > 0 \/ (a.top = 0 /\ LowNonNeg(a))

\* `x as u32`: the low 32 bits
AsU32(a) == a.lo

\* `p as i64` of a u32
U32AsI64(p) == IF p >= 0 THEN I64(0, p) ELSE I64(1, p)

\* p >= n for a u32 p and a length n
GeU32(p, n) == p < 0 \/ p >= n

None == [tag |-> "None"]

Some(x) == [tag |-> "Some", val |-> x]

IsSome(o) == o.tag = "Some"

\* Vec indexing, 0-based
At(v, i) == v[i + 1]

EmptyMap == <<>>

\* no input file is involved: the function under study is called directly
NoInput == [tag |-> "None"]

\* an insert with key and value exchanged
MapInsertSwapped(m, k, v) == [x \in (DOMAIN m) \cup {v} |-> IF x = v THEN k ELSE m[x]]

\* HashMap::insert: adds the key or overwrites its value
MapInsert(m, k, v) == [x \in (DOMAIN m) \cup {k} |-> IF x = k THEN v ELSE m[x]]

\* HashMap::get(&k) is Some
MapHasKey(m, k) == k \in DOMAIN m

---------------------------------------------------------------------------
(* Instructions and programs *)

Acc(n) == [op |-> "Acc", num |-> n]

Jmp(n) == [op |-> "Jmp", num |-> n]

Nop(n) == [op |-> "Nop", num |-> n]

Small(l) == I64(0, l)

Big == I64(1, 0)   \* the operand +4294967296

Deltas == {Small(-1), Small(2), I64Max}

Offsets == {Small(l) : l \in (-MaxOff)..MaxOff} \cup {Big, I64Max}

OPs == {Acc(n) : n \in Deltas} \cup {Jmp(n) : n \in Offsets} \cup {Nop(n) : n \in Offsets}

\* nop +0 / acc +1 / jmp +4 / acc +3 / jmp -3 / acc -99 / acc +1 / jmp -4 / acc +6
ScenarioA == << Nop(Small(0)), Acc(Small(1)), Jmp(Small(4)), Acc(Small(3)),
                Jmp(Small(-3)), Acc(Small(-99)), Acc(Small(1)), Jmp(Small(-4)),
                Acc(Small(6)) >>

Programs == UNION {[1..n -> OPs] : n \in 0..MaxLen} \cup {ScenarioA}

---------------------------------------------------------------------------
(* Executor: accumulate_from_instructions *)

\* line 31: the addition of jump_index panics
jump_panics(i, change) == AddPanics(change, U32AsI64(i))

\* a jump that treats a negative target as a fall-through to the next position
JumpIndexSkipNegative(i, change) ==
    LET sum == Add64(change, U32AsI64(i))
    IN  IF NonNeg64(sum) THEN AsU32(sum) ELSE i + 1

\* lines 30-35, when line 31 does not panic
jump_index(i, change) ==
    LET sum == Add64(change, U32AsI64(i))
    IN  IF NonNeg64(sum) THEN AsU32(sum) ELSE 0

nop_index(i) == i + 1

\* a match that never inverts the instruction at the swap position
NextIndexIgnoreSwap(prog, swap, i) ==
    LET ins == At(prog, i)
    IN  CASE ins.op = "Acc" -> i + 1
          [] ins.op = "Jmp" -> jump_index(i, ins.num)
          [] ins.op = "Nop" -> nop_index(i)

\* the match of lines 59-75: the position after executing instructions[i]
next_index(prog, swap, i) ==
    LET ins == At(prog, i)
        swapped == IsSome(swap) /\ swap.val = i
    IN  CASE ins.op = "Acc" -> i + 1
          [] ins.op = "Jmp" -> IF swapped THEN nop_index(i) ELSE jump_index(i, ins.num)
          [] ins.op = "Nop" -> IF swapped THEN jump_index(i, ins.num) ELSE nop_index(i)

\* lines 59-75: executing instructions[i] panics on an overflowing addition,
\* `acc += num` of line 61 or `change + index as i64` of line 31
step_panics(prog, swap, a, i) ==
    LET ins == At(prog, i)
        swapped == IsSome(swap) /\ swap.val = i
    IN  CASE ins.op = "Acc" -> AddPanics(a, ins.num)
          [] ins.op = "Jmp" -> ~swapped /\ jump_panics(i, ins.num)
          [] ins.op = "Nop" -> swapped /\ jump_panics(i, ins.num)

\* the accumulator after executing instructions[i] (line 61), when the
\* addition does not panic
next_acc(prog, a, i) ==
    LET ins == At(prog, i)
    IN  IF ins.op = "Acc" THEN Add64(a, ins.num) ELSE a

\* a loop check that looks among the recorded targets instead of the keys
AlreadyVisitedAsTarget(graph, i) == \E k \in DOMAIN graph : graph[k] = i

\* line 50: the loop check
already_visited(graph, i) == MapHasKey(graph, i)

\* a call that keeps the accumulator of the previous call
ExecEntryKeepAcc(swap) ==
    /\ swap_op_index' = swap
    /\ visited_instruction_graph' = EmptyMap
    /\ acc' = acc
    /\ index' = 0
    /\ ret' = <<>>
    /\ iterations' = 0
    /\ visits' = <<>>

\* lines 45-47: the locals at the start of a call
ExecEntry(swap) ==
    /\ swap_op_index' = swap
    /\ visited_instruction_graph' = EmptyMap
    /\ acc' = Zero64
    /\ index' = 0
    /\ ret' = <<>>
    /\ iterations' = 0
    /\ visits' = <<>>

\* a loop detection that fires only after executing the instruction again
ExecLoopedLate ==
    /\ pc = "execute"
    /\ already_visited(visited_instruction_graph, index)
    /\ ret' = [acc |-> next_acc(instructions, acc, index),
               finished_early_at_index |-> Some(index),
               graph |-> visited_instruction_graph]
    /\ iterations' = iterations + 1
    /\ pc' = "returned"
    /\ UNCHANGED <<mainVars, instructions, swap_op_index, visited_instruction_graph, acc,
                   index, visits, extVars, repairVars>>

\* lines 50-53: loop detected
ExecLooped ==
    /\ pc = "execute"
    /\ already_visited(visited_instruction_graph, index)
    /\ ret' = [acc |-> acc, finished_early_at_index |-> Some(index),
               graph |-> visited_instruction_graph]
    /\ iterations' = iterations + 1
    /\ pc' = "returned"
    /\ UNCHANGED <<mainVars, instructions, swap_op_index, visited_instruction_graph, acc,
                   index, visits, extVars, repairVars>>

\* lines 54-57: ran past the end
ExecTerminated ==
    /\ pc = "execute"
    /\ ~already_visited(visited_instruction_graph, index)
    /\ GeU32(index, Len(instructions))
    /\ ret' = [acc |-> acc, finished_early_at_index |-> None,
               graph |-> visited_instruction_graph]
    /\ iterations' = iterations + 1
    /\ pc' = "returned"
    /\ UNCHANGED <<mainVars, instructions, swap_op_index, visited_instruction_graph, acc,
                   index, visits, extVars, repairVars>>

\* lines 58-78: execute one instruction.  An overflowing addition aborts
\* the process in a build with overflow checks; otherwise the instruction
\* takes effect and the transition is recorded.
ExecStep ==
    /\ pc = "execute"
    /\ ~already_visited(visited_instruction_graph, index)
    /\ ~GeU32(index, Len(instructions))
    /\ IF step_panics(instructions, swap_op_index, acc, index)
       THEN /\ pc' = "panic"
            /\ UNCHANGED <<acc, visited_instruction_graph, index, visits>>
       ELSE /\ LET nxt == next_index(instructions, swap_op_index, index)
               IN  /\ acc' = next_acc(instructions, acc, index)
                   /\ visited_instruction_graph' =
                          MapInsert(visited_instruction_graph, index, nxt)
                   /\ index' = nxt
            /\ visits' = Append(visits, index)
            /\ pc' = "execute"
    /\ iterations' = iterations + 1
    /\ UNCHANGED <<mainVars, instructions, swap_op_index, ret, extVars, repairVars>>

\* the executor called on any program with any swap_at
InitExec ==
    /\ instructions \in Programs
    /\ swap_op_index \in {None} \cup {Some(p) : p \in 0..MaxLen}
    /\ visited_instruction_graph = EmptyMap
    /\ acc = Zero64
    /\ index = 0
    /\ ret = <<>>
    /\ iterations = 0
    /\ visits = <<>>
    /\ ext_graph = EmptyMap
    /\ initial_index = 0
    /\ ext_index = 0
    /\ possibly_broken_instructions = <<>>
    /\ search_index = 0
    /\ result = Zero64
    /\ pc = "execute"
    /\ rpc = "none"
    /\ tried = <<>>
    /\ extract_calls = 0
    /\ outcomes = <<>>
    /\ raw_input = NoInput
    /\ output = <<>>
    /\ build \in Builds

NextExec == ExecLooped \/ ExecTerminated \/ ExecStep

SpecExec == InitExec /\ [][NextExec]_vars

---------------------------------------------------------------------------
(* Loop-path extractor: get_possibly_broken_instructions *)

\* lines 86-87: the locals at the start of a call
ExtractEntry(graph, start) ==
    /\ ext_graph' = graph
    /\ initial_index' = start
    /\ ext_index' = start
    /\ possibly_broken_instructions' = <<>>

\* a walk that pushes the next position instead of the current one
ExtractStepPushNext ==
    /\ pc = "extract"
    /\ Len(possibly_broken_instructions) < MaxWalk
    /\ IF ~MapHasKey(ext_graph, ext_index)
       THEN /\ pc' = "panic"
            /\ UNCHANGED <<ext_index, possibly_broken_instructions>>
       ELSE /\ possibly_broken_instructions' =
                   Append(possibly_broken_instructions, ext_graph[ext_index])
            /\ IF ext_graph[ext_index] = initial_index
               THEN pc' = "extracted" /\ UNCHANGED ext_index
               ELSE pc' = "extract" /\ ext_index' = ext_graph[ext_index]
    /\ UNCHANGED <<mainVars, instructions, execVars, ext_graph, initial_index, repairVars>>

\* a walk that pushes the position before looking it up
ExtractStepPushFirst ==
    /\ pc = "extract"
    /\ Len(possibly_broken_instructions) < MaxWalk
    /\ possibly_broken_instructions' = Append(possibly_broken_instructions, ext_index)
    /\ IF ~MapHasKey(ext_graph, ext_index)
       THEN pc' = "panic" /\ UNCHANGED ext_index
       ELSE IF ext_graph[ext_index] = initial_index
            THEN pc' = "extracted" /\ UNCHANGED ext_index
            ELSE pc' = "extract" /\ ext_index' = ext_graph[ext_index]
    /\ UNCHANGED <<mainVars, instructions, execVars, ext_graph, initial_index, repairVars>>

\* a walk that leaves the loop before pushing the closing position
ExtractStepBreakBeforePush ==
    /\ pc = "extract"
    /\ Len(possibly_broken_instructions) < MaxWalk
    /\ IF ~MapHasKey(ext_graph, ext_index)
       THEN /\ pc' = "panic"
            /\ UNCHANGED <<ext_index, possibly_broken_instructions>>
       ELSE IF ext_graph[ext_index] = initial_index
            THEN /\ pc' = "extracted"
                 /\ UNCHANGED <<ext_index, possibly_broken_instructions>>
            ELSE /\ pc' = "extract"
                 /\ possibly_broken_instructions' =
                        Append(possibly_broken_instructions, ext_index)
                 /\ ext_index' = ext_graph[ext_index]
    /\ UNCHANGED <<mainVars, instructions, execVars, ext_graph, initial_index, repairVars>>

\* lines 88-96: one iteration of the walk.  The unwrap of line 89 panics on
\* a missing key; otherwise the position is pushed and the walk either
\* closes (the next position is initial_index) or moves on.
ExtractStep ==
    /\ pc = "extract"
    /\ Len(possibly_broken_instructions) < MaxWalk
    /\ IF ~MapHasKey(ext_graph, ext_index)
       THEN /\ pc' = "panic"
            /\ UNCHANGED <<ext_index, possibly_broken_instructions>>
       ELSE /\ possibly_broken_instructions' =
                   Append(possibly_broken_instructions, ext_index)
            /\ IF ext_graph[ext_index] = initial_index
               THEN pc' = "extracted" /\ UNCHANGED ext_index
               ELSE pc' = "extract" /\ ext_index' = ext_graph[ext_index]
    /\ UNCHANGED <<mainVars, instructions, execVars, ext_graph, initial_index, repairVars>>

Positions == 0..MaxPos

\* every HashMap<u32, u32> over the enumerated positions
Maps == UNION {[K -> Positions] : K \in SUBSET Positions}

\* the extractor called on any transition map with any loop_start
InitExtract ==
    /\ instructions = <<>>
    /\ swap_op_index = None
    /\ visited_instruction_graph = EmptyMap
    /\ acc = Zero64
    /\ index = 0
    /\ ret = <<>>
    /\ iterations = 0
    /\ visits = <<>>
    /\ ext_graph \in Maps
    /\ initial_index \in Positions
    /\ ext_index = initial_index
    /\ possibly_broken_instructions = <<>>
    /\ search_index = 0
    /\ result = Zero64
    /\ pc = "extract"
    /\ rpc = "none"
    /\ tried = <<>>
    /\ extract_calls = 0
    /\ outcomes = <<>>
    /\ raw_input = NoInput
    /\ output = <<>>
    /\ build \in Builds

NextExtract == ExtractStep

SpecExtract == InitExtract /\ [][NextExtract]_vars

---------------------------------------------------------------------------
(* Repair search: accumulate_and_fix_broken_instruction *)

\* the (acc, finished_early_at_index) that repair destructures from a call
Outcome(r) == [acc |-> r.acc, finished_early_at_index |-> r.finished_early_at_index]

\* an early return that gives the initial accumulator instead of the final one
RepairNoFixInitialAcc ==
    /\ pc = "returned"
    /\ rpc = "first"
    /\ ~IsSome(ret.finished_early_at_index)
    /\ result' = Zero64
    /\ pc' = "done"
    /\ rpc' = "done"
    /\ outcomes' = Append(outcomes, Outcome(ret))
    /\ UNCHANGED <<mainVars, instructions, execVars, extVars, search_index, tried,
                   extract_calls>>

\* lines 103-105: the first run terminated, return its accumulator
RepairNoFix ==
    /\ pc = "returned"
    /\ rpc = "first"
    /\ ~IsSome(ret.finished_early_at_index)
    /\ result' = ret.acc
    /\ pc' = "done"
    /\ rpc' = "done"
    /\ outcomes' = Append(outcomes, Outcome(ret))
    /\ UNCHANGED <<mainVars, instructions, execVars, extVars, search_index, tried,
                   extract_calls>>

\* lines 106-108: the first run looped, call the extractor
RepairCallExtract ==
    /\ pc = "returned"
    /\ rpc = "first"
    /\ IsSome(ret.finished_early_at_index)
    /\ ExtractEntry(ret.graph, ret.finished_early_at_index.val)
    /\ extract_calls' = extract_calls + 1
    /\ pc' = "extract"
    /\ rpc' = "extracting"
    /\ outcomes' = Append(outcomes, Outcome(ret))
    /\ UNCHANGED <<mainVars, instructions, execVars, search_index, result, tried>>

\* lines 107-109: the extractor returned, start the search at candidate 0
RepairBeginSearch ==
    /\ pc = "extracted"
    /\ rpc = "extracting"
    /\ search_index' = 0
    /\ pc' = "search"
    /\ rpc' = "search"
    /\ UNCHANGED <<mainVars, instructions, execVars, extVars, result, tried, extract_calls, outcomes>>

\* lines 111-112: both Vec lookups of the search loop are in bounds
CandidateInBounds ==
    /\ search_index < Len(possibly_broken_instructions)
    /\ ~GeU32(At(possibly_broken_instructions, search_index), Len(instructions))

\* lines 111-112: indexing out of bounds panics
RepairPanic ==
    /\ pc = "search"
    /\ ~CandidateInBounds
    /\ pc' = "panic"
    /\ rpc' = "panic"
    /\ UNCHANGED <<mainVars, instructions, execVars, extVars, search_index, result, tried,
                   extract_calls, outcomes>>

\* lines 111-114, 127: an Acc candidate is skipped
RepairSkipAcc ==
    /\ pc = "search"
    /\ CandidateInBounds
    /\ LET instruction_index == At(possibly_broken_instructions, search_index)
       IN  /\ At(instructions, instruction_index).op = "Acc"
    /\ search_index' = search_index + 1
    /\ UNCHANGED <<mainVars, instructions, execVars, extVars, result, pc, rpc, tried,
                   extract_calls, outcomes>>

\* a search that also runs the candidates holding Acc
RepairTryAnyOp ==
    /\ pc = "search"
    /\ CandidateInBounds
    /\ LET instruction_index == At(possibly_broken_instructions, search_index)
       IN  /\ ExecEntry(Some(instruction_index))
           /\ tried' = Append(tried, Some(instruction_index))
    /\ pc' = "execute"
    /\ rpc' = "trying"
    /\ UNCHANGED <<mainVars, instructions, extVars, search_index, result, extract_calls, outcomes>>

\* lines 111-119: a Jmp or Nop candidate is run with the swap
RepairTry ==
    /\ pc = "search"
    /\ CandidateInBounds
    /\ LET instruction_index == At(possibly_broken_instructions, search_index)
       IN  /\ At(instructions, instruction_index).op # "Acc"
           /\ ExecEntry(Some(instruction_index))
           /\ tried' = Append(tried, Some(instruction_index))
    /\ pc' = "execute"
    /\ rpc' = "trying"
    /\ UNCHANGED <<mainVars, instructions, extVars, search_index, result, extract_calls, outcomes>>

\* a search that stays on the candidate whose swapped run looped
RepairNextCandidateNoAdvance ==
    /\ pc = "returned"
    /\ rpc = "trying"
    /\ IsSome(ret.finished_early_at_index)
    /\ search_index' = search_index
    /\ pc' = "search"
    /\ rpc' = "search"
    /\ outcomes' = Append(outcomes, Outcome(ret))
    /\ UNCHANGED <<mainVars, instructions, execVars, extVars, result, tried, extract_calls>>

\* lines 120-121, 127: the swapped run looped again, next candidate
RepairNextCandidate ==
    /\ pc = "returned"
    /\ rpc = "trying"
    /\ IsSome(ret.finished_early_at_index)
    /\ search_index' = search_index + 1
    /\ pc' = "search"
    /\ rpc' = "search"
    /\ outcomes' = Append(outcomes, Outcome(ret))
    /\ UNCHANGED <<mainVars, instructions, execVars, extVars, result, tried, extract_calls>>

\* lines 120-123: the swapped run terminated, return its accumulator
RepairFixed ==
    /\ pc = "returned"
    /\ rpc = "trying"
    /\ ~IsSome(ret.finished_early_at_index)
    /\ result' = ret.acc
    /\ pc' = "done"
    /\ rpc' = "done"
    /\ outcomes' = Append(outcomes, Outcome(ret))
    /\ UNCHANGED <<mainVars, instructions, execVars, extVars, search_index, tried,
                   extract_calls>>

\* repair called on any program: lines 101-102 call the executor without swap
Init ==
    /\ instructions \in Programs
    /\ swap_op_index = None
    /\ visited_instruction_graph = EmptyMap
    /\ acc = Zero64
    /\ index = 0
    /\ ret = <<>>
    /\ iterations = 0
    /\ visits = <<>>
    /\ ext_graph = EmptyMap
    /\ initial_index = 0
    /\ ext_index = 0
    /\ possibly_broken_instructions = <<>>
    /\ search_index = 0
    /\ result = Zero64
    /\ pc = "execute"
    /\ rpc = "first"
    /\ tried = <<None>>
    /\ extract_calls = 0
    /\ outcomes = <<>>
    /\ raw_input = NoInput
    /\ output = <<>>
    /\ build \in Builds

Next ==
    \/ ExecLooped
    \/ ExecTerminated
    \/ ExecStep
    \/ ExtractStep
    \/ RepairNoFix
    \/ RepairCallExtract
    \/ RepairBeginSearch
    \/ RepairPanic
    \/ RepairSkipAcc
    \/ RepairTry
    \/ RepairNextCandidate
    \/ RepairFixed

Spec == Init /\ [][Next]_vars

---------------------------------------------------------------------------
(* Parsing and main *)

(* An input text is a sequence of lines; a line "<op> <sign><digits>" is    *)
(* written [op, sign, digits], with sign "" for a number without sign.  The *)
(* enumerated op words other than acc, jmp and nop contain none of them.    *)

\* line 134: the line contains a match of (acc|nop|jmp) ([\+|\-][0-9]+)
Matches(line) ==
    /\ line.op \in {"acc", "nop", "jmp"}
    /\ line.sign \in {"+", "|", "-"}
    /\ Len(line.digits) >= 1

RECURSIVE Significant(_)
\* the digits without leading zeros
Significant(d) ==
    IF d = <<>> \/ Head(d) # 0 THEN d ELSE Significant(Tail(d))

RECURSIVE DigitsValue(_)
DigitsValue(d) ==
    IF d = <<>> THEN 0 ELSE DigitsValue(SubSeq(d, 1, Len(d) - 1)) * 10 + d[Len(d)]

\* the decimal digits of i64::MAX
I64MaxDigits == <<9, 2, 2, 3, 3, 7, 2, 0, 3, 6, 8, 5, 4, 7, 7, 5, 8, 0, 7>>

\* lines 12-17: str::parse::<i64>, 0 on error.  "|" is no sign (invalid
\* digit) and more than 19 significant digits overflow; of the numbers of 10
\* to 19 digits only i64::MAX and its negation are defined here.
to_int(sign, digits) ==
    LET d == Significant(digits)
    IN  IF sign \notin {"", "+", "-"} \/ digits = <<>> THEN Zero64
        ELSE IF Len(d) > 19 THEN Zero64
        ELSE CASE Len(d) <= 9 ->
                 Small(IF sign = "-" THEN 0 - DigitsValue(d) ELSE DigitsValue(d))
               [] d = I64MaxDigits ->
                 IF sign = "-" THEN Neg64(I64Max) ELSE I64Max

\* lines 19-28
to_operation(raw_instruction) ==
    LET op_type == raw_instruction.op
        num == to_int(raw_instruction.sign, raw_instruction.digits)
    IN  CASE op_type = "acc" -> Acc(num)
          [] op_type = "jmp" -> Jmp(num)
          [] OTHER -> Nop(num)

\* lines 139-144: captures_iter, map, collect
Parse(text) ==
    LET found == SelectSeq(text, Matches)
    IN  [i \in 1..Len(found) |-> to_operation(found[i])]

OpWords == {"acc", "jmp", "nop", "foo"}

Nines == [i \in 1..20 |-> 9]

Numbers == { [sign |-> "+", digits |-> <<1>>], [sign |-> "-", digits |-> <<1>>],
             [sign |-> "+", digits |-> <<0>>], [sign |-> "-", digits |-> <<2>>],
             [sign |-> "", digits |-> <<1>>], [sign |-> "|", digits |-> <<2>>],
             [sign |-> "+", digits |-> Nines],
             [sign |-> "+", digits |-> I64MaxDigits] }

Lines == {[op |-> w, sign |-> n.sign, digits |-> n.digits] : w \in OpWords, n \in Numbers}

Texts == UNION {[1..n -> Lines] : n \in 0..MaxLines}

ReadErr == [tag |-> "Err"]

ReadOk(text) == [tag |-> "Ok", text |-> text]

ErrorLine == [text |-> "Something's wrong with the input file!"]

ResultLine(value) == [text |-> "Our accumulator hit", value |-> value]

\* a main that goes on with an empty program when the file cannot be read
MainReadErrRunsEmpty ==
    /\ pc = "main"
    /\ raw_input.tag = "Err"
    /\ instructions' = <<>>
    /\ ExecEntry(None)
    /\ tried' = <<None>>
    /\ pc' = "execute"
    /\ rpc' = "first"
    /\ UNCHANGED <<mainVars, extVars, search_index, result, extract_calls, outcomes>>

\* lines 137, 151: the file cannot be read
MainReadErr ==
    /\ pc = "main"
    /\ raw_input.tag = "Err"
    /\ output' = Append(output, ErrorLine)
    /\ pc' = "exit"
    /\ UNCHANGED <<raw_input, build, instructions, execVars, extVars, repairVars>>

\* lines 137-148: the file is read, parsed, and repair is called
MainRun ==
    /\ pc = "main"
    /\ raw_input.tag = "Ok"
    /\ instructions' = Parse(raw_input.text)
    /\ ExecEntry(None)
    /\ tried' = <<None>>
    /\ pc' = "execute"
    /\ rpc' = "first"
    /\ UNCHANGED <<mainVars, extVars, search_index, result, extract_calls, outcomes>>

\* lines 146-149: repair returned, print its value
MainPrint ==
    /\ pc = "done"
    /\ output' = Append(output, ResultLine(result))
    /\ pc' = "exit"
    /\ UNCHANGED <<raw_input, build, instructions, execVars, extVars, repairVars>>

InitMain ==
    /\ raw_input \in {ReadErr} \cup {ReadOk(t) : t \in Texts}
    /\ output = <<>>
    /\ build \in Builds
    /\ instructions = <<>>
    /\ swap_op_index = None
    /\ visited_instruction_graph = EmptyMap
    /\ acc = Zero64
    /\ index = 0
    /\ ret = <<>>
    /\ iterations = 0
    /\ visits = <<>>
    /\ ext_graph = EmptyMap
    /\ initial_index = 0
    /\ ext_index = 0
    /\ possibly_broken_instructions = <<>>
    /\ search_index = 0
    /\ result = Zero64
    /\ pc = "main"
    /\ rpc = "none"
    /\ tried = <<>>
    /\ extract_calls = 0
    /\ outcomes = <<>>

NextMain ==
    \/ MainReadErr
    \/ MainRun
    \/ MainPrint
    \/ ExecLooped
    \/ ExecTerminated
    \/ ExecStep
    \/ ExtractStep
    \/ RepairNoFix
    \/ RepairCallExtract
    \/ RepairBeginSearch
    \/ RepairPanic
    \/ RepairSkipAcc
    \/ RepairTry
    \/ RepairNextCandidate
    \/ RepairFixed

SpecMain == InitMain /\ [][NextMain]_vars

---------------------------------------------------------------------------
(* Properties *)

Range(v) == {v[i] : i \in 1..Len(v)}

NoDup(v) == \A i, j \in 1..Len(v) : v[i] = v[j] => i = j

RECURSIVE SumAcc(_, _)
\* the deltas of the Acc instructions at the positions of v, added up in
\* i64 as line 61 does in a run that does not panic
SumAcc(prog, v) ==
    IF v = <<>> THEN Zero64
    ELSE LET ins == At(prog, Head(v))
         IN  Add64(IF ins.op = "Acc" THEN ins.num ELSE Zero64, SumAcc(prog, Tail(v)))

RECURSIVE WalkReaches(_, _, _, _)
\* following T from cur reaches P within fuel steps, through keys of T only
WalkReaches(T, P, cur, fuel) ==
    IF cur = P THEN TRUE
    ELSE IF fuel = 0 \/ cur \notin DOMAIN T THEN FALSE
    ELSE WalkReaches(T, P, T[cur], fuel - 1)

\* the precondition of the extractor: P is a key of T and following T from
\* P returns to P
LoopPrecondition(T, P) ==
    /\ P \in DOMAIN T
    /\ WalkReaches(T, P, T[P], Cardinality(DOMAIN T))

\* a run of the executor makes at most N+1 iterations of its loop and
\* executes at most N instructions, however it ends
C1_IterationBound ==
    /\ iterations <= Len(instructions) + 1
    /\ Len(visits) <= Len(instructions)
    /\ pc = "execute" => iterations <= Len(instructions)
    /\ pc = "returned" => iterations = Len(visits) + 1
    /\ pc = "panic" => iterations = Len(visits) + 1

\* C1: a run of the executor ends by returning, with normal termination or
\* with loop detection, after at most N+1 iterations of its loop, having
\* executed at most N instructions, for every program and swap_at.
C1_ExecBounded ==
    /\ pc \in {"execute", "returned"}
    /\ iterations <= Len(instructions) + 1
    /\ Len(visits) <= Len(instructions)
    /\ pc = "execute" => iterations <= Len(instructions)
    /\ pc = "returned" => iterations = Len(visits) + 1

\* C2: the executor returns Some(P) exactly when the current position P is
\* already a key, None exactly when it is not a key and is >= the program
\* length; on a loop the instruction at P is not executed again, so the
\* returned accumulator and map are those built before the repeated visit.
C2_ReturnOutcome ==
    pc = "returned" =>
        LET o == ret.finished_early_at_index
        IN  /\ IsSome(o) <=> MapHasKey(visited_instruction_graph, index)
            /\ IsSome(o) => o.val = index
            /\ ~IsSome(o) <=> /\ ~MapHasKey(visited_instruction_graph, index)
                              /\ GeU32(index, Len(instructions))
            /\ ret.graph = visited_instruction_graph
            /\ DOMAIN ret.graph = Range(visits)
            /\ NoDup(visits)
            /\ ret.acc = SumAcc(instructions, visits)

C2_Witness ==
    /\ pc = "returned"
    /\ IsSome(ret.finished_early_at_index)
    /\ At(instructions, ret.finished_early_at_index.val).op = "Acc"
    /\ ret.acc # Zero64

\* C3: each position is inserted as a key at most once per run, only while
\* it is not yet a key, and no recorded transition is ever overwritten.
C3_FirstVisitOnly ==
    pc \in {"execute", "returned"} =>
        /\ NoDup(visits)
        /\ DOMAIN visited_instruction_graph = Range(visits)
        /\ \A i \in 1..Len(visits) :
              visited_instruction_graph[visits[i]] =
                  IF i < Len(visits) THEN visits[i + 1] ELSE index

C3_Witness ==
    /\ pc = "returned"
    /\ IsSome(ret.finished_early_at_index)
    /\ Len(visits) >= 3
    /\ index # 0

\* C4: whenever the executor returns Some(P) with map T, P is a key of T and
\* following T from P returns to P through keys of T.
C4_LoopOutcomeClosed ==
    (pc = "returned" /\ IsSome(ret.finished_early_at_index)) =>
        LoopPrecondition(ret.graph, ret.finished_early_at_index.val)

C4_Witness ==
    /\ pc = "returned"
    /\ IsSome(ret.finished_early_at_index)
    /\ IsSome(swap_op_index)
    /\ ret.finished_early_at_index.val > 0
    /\ ret.graph[ret.finished_early_at_index.val] # ret.finished_early_at_index.val

\* C5: under its precondition the extractor returns a sequence that starts
\* at P, follows T element by element, whose last element maps back to P,
\* and in which every position appears once.
C5_LoopPath ==
    LoopPrecondition(ext_graph, initial_index) =>
        LET path == possibly_broken_instructions
        IN  /\ pc # "panic"
            /\ pc = "extract" => Len(path) < Cardinality(DOMAIN ext_graph)
            /\ pc = "extracted" =>
                  /\ Len(path) >= 1
                  /\ path[1] = initial_index
                  /\ \A i \in 1..(Len(path) - 1) : path[i + 1] = ext_graph[path[i]]
                  /\ ext_graph[path[Len(path)]] = initial_index
                  /\ NoDup(path)

C5_Witness ==
    /\ pc = "extracted"
    /\ Len(possibly_broken_instructions) = 3
    /\ Cardinality(DOMAIN ext_graph) = 4

\* max(0, a)
Floor0(a) == IF NonNeg64(a) THEN a ELSE Zero64

SwappedAt(swap, k) == IsSome(swap) /\ swap.val = k

\* the instruction at k acts as a jump in a run with this swap
Jumps(prog, swap, k) ==
    \/ At(prog, k).op = "Jmp" /\ ~SwappedAt(swap, k)
    \/ At(prog, k).op = "Nop" /\ SwappedAt(swap, k)

\* C6: with swap_at = Some(p), a Jmp at p goes to p+1 and a Nop(operand) at p
\* goes to max(0, p + operand); every other position behaves as in an
\* unswapped run, and only Acc changes the accumulator.
C6_SwapSemantics ==
    pc \in {"execute", "returned"} =>
        /\ \A i \in 1..Len(visits) :
              LET k == visits[i]
                  ins == At(instructions, k)
                  nxt == visited_instruction_graph[k]
              IN  IF SwappedAt(swap_op_index, k) /\ ins.op = "Jmp"
                      THEN nxt = k + 1
                  ELSE IF SwappedAt(swap_op_index, k) /\ ins.op = "Nop"
                      THEN U32AsI64(nxt) = Floor0(Sum64(ins.num, U32AsI64(k)))
                  ELSE nxt = next_index(instructions, None, k)
        /\ acc = SumAcc(instructions, visits)

\* the statement of C6 for programs whose operands are all below 2^32
C6_SwapSemanticsBelowU32 ==
    (\A j \in 1..Len(instructions) :
        instructions[j].num.top = 0 /\ instructions[j].num.hi = 0) => C6_SwapSemantics

\* C7: a jump whose computed target is negative goes to position 0; a Jmp at
\* position 0 with a negative offset records 0 -> 0 and the unswapped run
\* ends with loop detection at 0 on the second visit, accumulator 0.
C7_NegativeJumpFloor ==
    pc \in {"execute", "returned"} =>
        /\ \A k \in DOMAIN visited_instruction_graph :
              ( /\ Jumps(instructions, swap_op_index, k)
                /\ ~NonNeg64(Sum64(At(instructions, k).num, U32AsI64(k))) )
              => visited_instruction_graph[k] = 0
        /\ ( /\ pc = "returned"
             /\ ~IsSome(swap_op_index)
             /\ Len(instructions) >= 1
             /\ At(instructions, 0).op = "Jmp"
             /\ ~NonNeg64(At(instructions, 0).num) )
           => /\ ret = [acc |-> Zero64, finished_early_at_index |-> Some(0),
                        graph |-> (0 :> 0)]
              /\ iterations = 2

C7_Witness ==
    /\ pc = "returned"
    /\ ~IsSome(swap_op_index)
    /\ Len(instructions) = MaxLen
    /\ At(instructions, 0) = Jmp(Small(-1))

\* C8: when the unmodified run terminates, repair returns exactly its
\* accumulator, without calling the extractor and without any swapped run.
C8_NoRepairNeeded ==
    (Len(outcomes) >= 1 /\ ~IsSome(outcomes[1].finished_early_at_index)) =>
        /\ pc = "done"
        /\ result = outcomes[1].acc
        /\ ~IsSome(swap_op_index)
        /\ result = SumAcc(instructions, visits)
        /\ tried = <<None>>
        /\ Len(outcomes) = 1
        /\ extract_calls = 0
        /\ possibly_broken_instructions = <<>>

C8_Witness ==
    /\ pc = "done"
    /\ tried = <<None>>
    /\ Len(instructions) = MaxLen
    /\ result # Zero64

\* the loop-path positions that hold Jmp or Nop, in path order
Cands(path) == SelectSeq(path, LAMBDA q : At(instructions, q).op # "Acc")

\* C9: repair tries the Jmp/Nop positions of the loop path in path order and
\* nothing else, goes on to the next candidate after a swapped run that
\* loops, and returns the accumulator of the first swapped run that
\* terminates, after which no further run is made.
C9_SearchOrder ==
    (rpc \in {"search", "trying", "done", "panic"} /\ extract_calls = 1) =>
        LET path == possibly_broken_instructions
            runs == Tail(tried)
            outs == Tail(outcomes)
            seen == IF rpc = "search" THEN search_index
                    ELSE IF rpc = "panic" THEN Len(path)
                    ELSE search_index + 1
        IN  /\ tried[1] = None
            /\ seen <= Len(path)
            /\ runs = [i \in 1..Len(runs) |-> Some(Cands(path)[i])]
            /\ Len(runs) = Len(Cands(SubSeq(path, 1, seen)))
            /\ Len(outs) = IF rpc = "trying" THEN Len(runs) - 1 ELSE Len(runs)
            /\ \A i \in 1..Len(outs) :
                  ~IsSome(outs[i].finished_early_at_index) =>
                      /\ i = Len(runs)
                      /\ pc = "done"
                      /\ result = outs[i].acc
            /\ pc = "done" =>
                  /\ Len(runs) >= 1
                  /\ ~IsSome(outs[Len(outs)].finished_early_at_index)
                  /\ swap_op_index = runs[Len(runs)]
                  /\ result = SumAcc(instructions, visits)

C9_Witness ==
    /\ pc = "done"
    /\ Len(tried) = 3
    /\ search_index = 3
    /\ At(instructions, At(possibly_broken_instructions, 0)).op = "Acc"

\* what a run gives when an overflowing addition aborts it
Aborted == [aborted |-> TRUE]

RECURSIVE Run(_, _, _, _, _)
\* the executor as a function of (program, swap_at): the value returned by
\* the loop of lines 49-79 from map `graph`, accumulator a and position i
Run(prog, swap, graph, a, i) ==
    IF MapHasKey(graph, i)
        THEN [acc |-> a, finished_early_at_index |-> Some(i), graph |-> graph]
    ELSE IF GeU32(i, Len(prog))
        THEN [acc |-> a, finished_early_at_index |-> None, graph |-> graph]
    ELSE IF step_panics(prog, swap, a, i)
        THEN Aborted
    ELSE Run(prog, swap, MapInsert(graph, i, next_index(prog, swap, i)),
             next_acc(prog, a, i), next_index(prog, swap, i))

\* the run of prog with this swap returns with normal termination
RunTerminates(prog, swap) ==
    LET r == Run(prog, swap, EmptyMap, Zero64, 0)
    IN  r # Aborted /\ ~IsSome(r.finished_early_at_index)

\* some single Jmp<->Nop swap makes the program terminate
SomeSwapTerminates(prog) ==
    \E q \in 0..(Len(prog) - 1) :
        /\ At(prog, q).op # "Acc"
        /\ RunTerminates(prog, Some(q))

\* C10: when the unmodified run loops and some single swap makes the program
\* terminate, repair finds a successful swap among the loop-path candidates
\* and returns the accumulator of a terminating swapped run.
C10_LoopPathLosesNoFix ==
    ( /\ Len(outcomes) >= 1
      /\ IsSome(outcomes[1].finished_early_at_index)
      /\ SomeSwapTerminates(instructions) )
    => /\ pc # "panic"
       /\ pc = "done" => /\ ~IsSome(ret.finished_early_at_index)
                         /\ result = ret.acc

\* C11: when the unmodified run loops and no loop-path candidate terminates,
\* repair ends in a reported failure: it never panics on the candidate list.
C11_ReportedFailure == rpc # "panic"

\* C12: on the nine-instruction program of scenario A the unmodified run
\* ends with loop detection at position 1 with accumulator 5, and repair
\* returns 8 from the terminating run with swap_at = 7.
C12_ScenarioA ==
    instructions = ScenarioA =>
        /\ rpc # "panic"
        /\ Len(outcomes) >= 1 =>
              outcomes[1] = [acc |-> Small(5), finished_early_at_index |-> Some(1)]
        /\ pc = "done" =>
              /\ result = Small(8)
              /\ swap_op_index = Some(7)
              /\ ~IsSome(ret.finished_early_at_index)
              /\ tried[Len(tried)] = Some(7)

C12_Witness ==
    /\ instructions = ScenarioA
    /\ pc = "done"
    /\ Len(outcomes) = 3

\* C14: for every position and operand the next position of a jump is
\* max(0, position + offset) exactly, without truncation to 32 bits, so a
\* jump whose target is >= the program length leads to normal termination.
C14_JumpExact ==
    pc \in {"execute", "returned"} =>
        /\ \A k \in DOMAIN visited_instruction_graph :
              Jumps(instructions, swap_op_index, k) =>
                  U32AsI64(visited_instruction_graph[k]) =
                      Floor0(Sum64(At(instructions, k).num, U32AsI64(k)))
        /\ \A k \in DOMAIN visited_instruction_graph :
              ( /\ Jumps(instructions, swap_op_index, k)
                /\ (At(instructions, k).num.top > 0 \/ At(instructions, k).num.hi > 0)
                /\ pc = "returned"
                /\ visits[Len(visits)] = k )
              => ~IsSome(ret.finished_early_at_index)

\* C15: the program is never modified and every executor run starts from
\* position 0, accumulator 0 and an empty map, so what a run returns depends
\* only on (program, swap_at), whatever runs were made before it.
C15_RunsIndependent ==
    /\ [](pc = "returned" =>
             ret = Run(instructions, swap_op_index, EmptyMap, Zero64, 0))
    /\ []((pc = "panic" /\ rpc \in {"first", "trying"}) =>
             Run(instructions, swap_op_index, EmptyMap, Zero64, 0) = Aborted)
    /\ [][ /\ instructions' = instructions
           /\ (pc # "execute" /\ pc' = "execute") =>
                 /\ index' = 0
                 /\ acc' = Zero64
                 /\ visited_instruction_graph' = EmptyMap ]_vars

C15_Witness ==
    /\ pc = "returned"
    /\ rpc = "trying"
    /\ Len(tried) >= 3
    /\ outcomes[2].acc # Zero64
    /\ ret.acc # outcomes[2].acc

\* C16: called with a loop_start that is not a key of the map, the
\* extractor fails on its first lookup, before appending anything.
C16_MissingStartFailsFast ==
    ~MapHasKey(ext_graph, initial_index) =>
        /\ possibly_broken_instructions = <<>>
        /\ ext_index = initial_index
        /\ pc \in {"extract", "panic"}

C16_Witness ==
    /\ pc = "panic"
    /\ ~MapHasKey(ext_graph, initial_index)
    /\ Cardinality(DOMAIN ext_graph) = MaxPos

RECURSIVE SumAccSet(_, _)
\* the sum, as an integer, of the deltas of the Acc instructions at the
\* positions of set S
SumAccSet(prog, S) ==
    IF S = {} THEN Zero64
    ELSE LET k == CHOOSE x \in S : TRUE
             ins == At(prog, k)
         IN  Sum64(IF ins.op = "Acc" THEN ins.num ELSE Zero64,
                   SumAccSet(prog, S \ {k}))

OnlyAcc(prog) == \A j \in 1..Len(prog) : prog[j].op = "Acc"

\* C18: at every point of a run the accumulator is the sum of the deltas of
\* the Acc instructions at the current keys of the map; a program made only
\* of Acc terminates without repair, visiting 0..N-1 in order, with the sum
\* of all deltas.
C18_AccIsSumOfVisited ==
    /\ pc \in {"execute", "returned"} =>
          acc = SumAccSet(instructions, DOMAIN visited_instruction_graph)
    /\ OnlyAcc(instructions) =>
          /\ pc # "panic"
          /\ rpc \in {"first", "done"}
          /\ tried = <<None>>
          /\ visits = [i \in 1..Len(visits) |-> i - 1]
          /\ pc \in {"returned", "done"} =>
                /\ ~IsSome(ret.finished_early_at_index)
                /\ Len(visits) = Len(instructions)
                /\ ret.acc = SumAccSet(instructions, 0..(Len(instructions) - 1))
          /\ pc = "done" => result = ret.acc

\* C19: every key of a map built by the executor is a program index, every
\* loop-path position is in bounds, the loop path has between 1 and N
\* elements, and the first candidate lookup of repair is in bounds.
C19_IndexesInBounds ==
    /\ pc \in {"execute", "returned"} =>
          \A k \in DOMAIN visited_instruction_graph : ~GeU32(k, Len(instructions))
    /\ \A i \in 1..Len(possibly_broken_instructions) :
          ~GeU32(possibly_broken_instructions[i], Len(instructions))
    /\ (rpc \in {"search", "trying", "done", "panic"} /\ extract_calls = 1) =>
          /\ Len(possibly_broken_instructions) >= 1
          /\ Len(possibly_broken_instructions) <= Len(instructions)
    /\ (pc = "search" /\ search_index = 0) => CandidateInBounds

C19_Witness ==
    /\ pc = "search"
    /\ search_index = 0
    /\ Len(instructions) = MaxLen
    /\ Len(possibly_broken_instructions) = MaxLen

\* C20: repair ends after at most 1 + K executor runs, K the number of
\* Jmp/Nop positions on the loop path: no candidate is run twice and the
\* candidate index grows by one on every iteration of the search loop.
C20_SearchBounded ==
    /\ [](/\ Len(tried) <= 1 + Len(Cands(possibly_broken_instructions))
          /\ NoDup(tried)
          /\ search_index <= Len(possibly_broken_instructions)
          /\ rpc = "panic" => search_index = Len(possibly_broken_instructions))
    /\ [][(pc' = "search" /\ pc \in {"search", "returned"}) =>
              search_index' = search_index + 1]_vars

C20_Witness ==
    /\ rpc = "panic"
    /\ Len(tried) >= 3
    /\ Len(tried) = 1 + Len(Cands(possibly_broken_instructions))

\* C13: when the input cannot be read, main prints the error line and never
\* calls repair or the executor: no instruction runs, no result is printed.
C13_UnreadableInput ==
    raw_input.tag = "Err" =>
        /\ pc \in {"main", "exit"}
        /\ rpc = "none"
        /\ tried = <<>>
        /\ iterations = 0
        /\ visits = <<>>
        /\ output = IF pc = "exit" THEN <<ErrorLine>> ELSE <<>>

C13_Witness ==
    /\ raw_input.tag = "Err"
    /\ pc = "exit"

\* the instruction kind the claim gives to an op word
ClaimedOp(w) == IF w = "acc" THEN "Acc" ELSE IF w = "jmp" THEN "Jmp" ELSE "Nop"

\* C17: parsing yields one instruction per input line "<op> <signed-int>",
\* in input order, with acc -> Acc, jmp -> Jmp and any other op word -> Nop,
\* so an instruction's position is its line index.
C17_OneInstructionPerLine ==
    ( /\ raw_input.tag = "Ok"
      /\ pc # "main"
      /\ \A i \in 1..Len(raw_input.text) : raw_input.text[i].sign \in {"+", "-"} ) =>
        /\ Len(instructions) = Len(raw_input.text)
        /\ \A i \in 1..Len(instructions) :
              i <= Len(raw_input.text) =>
                  instructions[i].op = ClaimedOp(raw_input.text[i].op)

====
